---- MODULE Spec2Model ----
(***************************************************************************)
(* Monthly return estimator of stock-options-fetcher:                      *)
(*   src/src/Expiry/NSE_EX.py          (fixed-count trim, alpha = 0.8)     *)
(*   src/src/Expiry/NSE_EX_24MONTHS.py (IQR trim, alpha = 0.85)            *)
(*                                                                         *)
(* Numbers.  The scripts compute in IEEE doubles; the model computes the   *)
(* same expressions exactly over the rationals.  A pct_change is kept as   *)
(* an integer number of 1/PctScale percent, a weight as an integer         *)
(* numerator over the common denominator weights.den, a probability or a   *)
(* mean as a reduced pair <<numerator, denominator>>.                      *)
(* A pandas value that may be NaN is a sequence: <<>> for NaN, <<v>> for v.*)
(* The volatility columns of NSE_EX_24MONTHS.py (log_return, vol) feed no  *)
(* branch and no other column and are left out, and so are the date        *)
(* columns of a record and the writing of the output file; of the prints   *)
(* only which message each symbol got is kept.                             *)
(*                                                                         *)
(* Option-chain scripts, the choice of expiries:                           *)
(*   src/src/otm_premiums.py, src/src/utils/PFC.py, src/src/nse/dhan.py    *)
(***************************************************************************)
EXTENDS Integers, Sequences, FiniteSets, TLC

\* ------------------------------------------------------------------ bounds
\* month-end histories: months, closes 1..MaxClose, trim counts 0..MaxK
MaxMonths == 5
MaxClose == 3
MaxK == 1
\* daily histories: months, months with a second trading day, closes
MaxDailyMonths == 4
MaxExtraDays == 1
MaxDailyClose == 2
\* monthly series given directly: entries
MaxSeries == 5
\* batches: symbols in the list, months of a (flat) history
MaxSymbols == 3
MaxBatchMonths == 4
\* option chains: months and expiry days per month of the calendar, expiries
\* in a chain
MaxExpMonths == 2
MaxExpDay == 2
MaxExpiries == 3
\* strike lists: the highest strike on offer
MaxStrike == 4
\* nsefetch: the highest max_retries a caller passes
MaxRetries == 3
\* quoted chains: rows in the chain's data
MaxQuotes == 2
\* symbols files: lines in the file
MaxLines == 2
\* sort_by_premium: rows in the input CSV
MaxCsvRows == 3

\* ----------------------------------------------------------- arithmetic
RECURSIVE Pow(_, _)
\* Python's ** on an integer exponent >= 0; 0 ** 0 = 1
Pow(b, e) == IF e = 0 THEN 1 ELSE b * Pow(b, e - 1)

Abs(x) == IF x < 0 THEN -x ELSE x

RECURSIVE GCD(_, _)
GCD(a, b) == IF b = 0 THEN a ELSE GCD(b, a % b)

LCM(a, b) == (a * b) \div GCD(a, b)

RECURSIVE LcmUpTo(_)
LcmUpTo(n) == IF n <= 1 THEN 1 ELSE LCM(n, LcmUpTo(n - 1))

\* every close of a history divides PctScale, so x * 100 / c is exact
PctScale == LCM(LcmUpTo(MaxClose), LcmUpTo(MaxDailyClose))

\* the rational n/d (d # 0) as a reduced pair with a positive denominator
Rat(n, d) ==
    LET g == GCD(Abs(n), Abs(d))
        s == IF d < 0 THEN -1 ELSE 1
    IN  <<(s * n) \div g, (s * d) \div g>>

RatLess(a, b) == a[1] * b[2] < b[1] * a[2]

\* the smaller of the two
RatMin(a, b) == IF RatLess(a, b) THEN a ELSE b

RatMax(a, b) == IF RatLess(a, b) THEN b ELSE a

RECURSIVE SumSeq(_)
SumSeq(s) == IF s = <<>> THEN 0 ELSE Head(s) + SumSeq(Tail(s))

SetMin(S) == CHOOSE x \in S : \A y \in S : x <= y

SetMax(S) == CHOOSE x \in S : \A y \in S : x >= y

RECURSIVE SortedSeqOfSet(_)
\* the elements of a finite set of integers, ascending
SortedSeqOfSet(S) ==
    IF S = {} THEN <<>> ELSE <<SetMin(S)>> \o SortedSeqOfSet(S \ {SetMin(S)})

\* Python's seq[start:stop] (step 1) on a sequence of length L
PySlice(s, start, stop) ==
    LET L  == Len(s)
        lo == IF start < 0 THEN (IF L + start < 0 THEN 0 ELSE L + start)
                           ELSE (IF start > L THEN L ELSE start)
        hi == IF stop < 0 THEN (IF L + stop < 0 THEN 0 ELSE L + stop)
                          ELSE (IF stop > L THEN L ELSE stop)
    IN  IF hi <= lo THEN <<>> ELSE SubSeq(s, lo + 1, hi)

\* ------------------------------------------------- price history provider
\* the frame of a history, rows ordered by trade date.  h[m] says what month
\* m holds, for closes in 1..c: 0 no row; x in 1..c one trading day with
\* close x; c + (x - 1) * c + y two trading days with closes x and then y
FirstClose(v, c) == IF v <= c THEN v ELSE ((v - c - 1) \div c) + 1

SecondClose(v, c) == ((v - c - 1) % c) + 1

HistoryOf(h, c) ==
    LET days == {2 * m - 1 : m \in {x \in 1..Len(h) : h[x] > 0}}
                    \cup {2 * m : m \in {x \in 1..Len(h) : h[x] > c}}
        idx  == SortedSeqOfSet(days)
        month(k) == (k + 1) \div 2
        day(k)   == 2 - (k % 2)
    IN  [i \in 1..Len(idx) |->
            [CH_TIMESTAMP     |-> <<month(idx[i]), day(idx[i])>>,
             CH_CLOSING_PRICE |-> IF day(idx[i]) = 1
                                  THEN FirstClose(h[month(idx[i])], c)
                                  ELSE SecondClose(h[month(idx[i])], c)]]

\* what equity_history can return (None/empty is <<>>) from a provider P:
\* the histories over the months 1..P.months with closes in 1..P.closes in
\* which at most P.extra months have a second trading day and, unless
\* P.gaps, no month is missing before a month that is present
Histories(P) ==
    { HistoryOf(h, P.closes) :
        h \in { x \in [1..P.months ->
                          0..(IF P.extra = 0 THEN P.closes
                              ELSE P.closes + P.closes * P.closes)] :
                   /\ Cardinality({k \in 1..P.months : x[k] > P.closes}) <= P.extra
                   /\ P.gaps \/ \A j, k \in 1..P.months : (j < k /\ x[j] = 0) => x[k] = 0 } }

\* histories with one row, the month-end close, for each month present
MonthEnd == [months |-> MaxMonths, extra |-> 0, closes |-> MaxClose, gaps |-> TRUE]

\* histories with two trading days in some months
Daily == [months |-> MaxDailyMonths, extra |-> MaxExtraDays, closes |-> MaxDailyClose,
          gaps |-> TRUE]

\* --------------------------------------------------- monthly aggregation
YearMonth(row) == row.CH_TIMESTAMP[1]

\* agg 'first' in place of 'last'
AggFirst(d, m) ==
    d[SetMin({i \in 1..Len(d) : YearMonth(d[i]) = m})].CH_CLOSING_PRICE

\* agg 'last': the value of the last row of the group, in row order
AggLast(d, m) ==
    d[SetMax({i \in 1..Len(d) : YearMonth(d[i]) = m})].CH_CLOSING_PRICE

\* groupby('YearMonth').agg(last).reset_index(): one row per month, months
\* ascending (groupby sorts its keys)
GroupByMonth(d) ==
    LET ms == SortedSeqOfSet({YearMonth(d[i]) : i \in 1..Len(d)})
    IN  [i \in 1..Len(ms) |-> [YearMonth |-> ms[i], close |-> AggLast(d, ms[i])]]

\* the change divided by the current close in place of the previous one
PctOfCurrent(prev, cur) == ((cur - prev) * 100 * PctScale) \div cur

\* pct_change() * 100 of one close against the previous one, in 1/PctScale %
PctOf(prev, cur) == ((cur - prev) * 100 * PctScale) \div prev

\* the pct_change column: NaN in the first row
WithPctChange(g) ==
    [i \in 1..Len(g) |->
        [YearMonth  |-> g[i].YearMonth,
         close      |-> g[i].close,
         pct_change |-> IF i = 1 THEN <<>>
                        ELSE <<PctOf(g[i - 1].close, g[i].close)>>]]

\* dropna(subset=['pct_change']).reset_index(drop=True), the column unboxed
DropNa(t) ==
    LET keep == SortedSeqOfSet({i \in 1..Len(t) : t[i].pct_change # <<>>})
    IN  [i \in 1..Len(keep) |->
            [YearMonth  |-> t[keep[i]].YearMonth,
             close      |-> t[keep[i]].close,
             pct_change |-> t[keep[i]].pct_change[1]]]

MonthlyPrices(d) == DropNa(WithPctChange(GroupByMonth(d)))

\* ------------------------------------------------------ fixed-count trim
\* sort_values('pct_change'): the orders of the rows that are ascending by
\* pct_change; the order of rows with equal pct_change is whatever the
\* (unstable) sort leaves
SortOrders(t) ==
    LET RECURSIVE Orders(_)
        Orders(I) ==
            IF I = {} THEN {<<>>}
            ELSE UNION { { <<i>> \o r : r \in Orders(I \ {i}) } :
                         i \in {x \in I : \A y \in I :
                                   t[x].pct_change <= t[y].pct_change} }
    IN  Orders(1..Len(t))

\* the frame re-ordered by p, reset_index(drop=True)
Reordered(t, p) == [i \in 1..Len(t) |-> t[p[i]]]

\* iloc[remove_extremes:], the upper cut forgotten
TruncateLowOnly(sorted_changes, k) == PySlice(sorted_changes, k, Len(sorted_changes))

\* sorted_changes.iloc[remove_extremes:-remove_extremes]
TruncateExtremes(sorted_changes, k) == PySlice(sorted_changes, k, -k)

\* < in place of <=
TooFewFixedStrict(t, k) == Len(t) < 2 * k

\* the guard of the skip branch of NSE_EX.py
TooFewFixed(t, k) == Len(t) <= 2 * k

\* -------------------------------------------------------------- IQR trim
IqrKNum == 3
IqrKDen == 2
MinSamples == 3

RECURSIVE SortedInts(_)
\* the integers of a sequence in ascending order, repetitions kept
SortedInts(s) ==
    IF s = <<>> THEN <<>>
    ELSE LET m == SetMin({s[i] : i \in 1..Len(s)})
             k == SetMin({i \in 1..Len(s) : s[i] = m})
         IN  <<m>> \o SortedInts(SubSeq(s, 1, k - 1) \o SubSeq(s, k + 1, Len(s)))

\* the pct_change column in ascending order
SortedPct(t) == SortedInts([i \in 1..Len(t) |-> t[i].pct_change])

\* 4 * Series.quantile(num/4), linear interpolation, of a non-empty column
QuantileTimes4(s, num) ==
    LET h == (Len(s) - 1) * num
        j == h \div 4
        r == h % 4
    IN  IF r = 0 THEN 4 * s[j + 1]
        ELSE 4 * s[j + 1] + r * (s[j + 2] - s[j + 1])

\* > and < in place of >= and <=
remove_outliers_iqr_strict(t) ==
    IF Len(t) = 0 THEN <<>>
    ELSE
      LET s     == SortedPct(t)
          q1    == QuantileTimes4(s, 1)
          q3    == QuantileTimes4(s, 3)
          iqr   == q3 - q1
          lower == IqrKDen * q1 - IqrKNum * iqr
          upper == IqrKDen * q3 + IqrKNum * iqr
          keep  == SortedSeqOfSet({i \in 1..Len(t) :
                      /\ 4 * IqrKDen * t[i].pct_change > lower
                      /\ 4 * IqrKDen * t[i].pct_change < upper})
      IN  [i \in 1..Len(keep) |-> t[keep[i]]]

\* the kept rows handed back newest first
remove_outliers_iqr_reversed(t) ==
    IF Len(t) = 0 THEN <<>>
    ELSE
      LET s     == SortedPct(t)
          q1    == QuantileTimes4(s, 1)
          q3    == QuantileTimes4(s, 3)
          iqr   == q3 - q1
          lower == IqrKDen * q1 - IqrKNum * iqr
          upper == IqrKDen * q3 + IqrKNum * iqr
          keep  == SortedSeqOfSet({i \in 1..Len(t) :
                      /\ 4 * IqrKDen * t[i].pct_change >= lower
                      /\ 4 * IqrKDen * t[i].pct_change <= upper})
      IN  [i \in 1..Len(keep) |-> t[keep[Len(keep) + 1 - i]]]

\* remove_outliers_iqr(data, 'pct_change', k = IqrKNum/IqrKDen); every
\* comparison is scaled by 4 * IqrKDen.  On an empty frame the quantiles are
\* NaN and nothing is kept.
remove_outliers_iqr(t) ==
    IF Len(t) = 0 THEN <<>>
    ELSE
      LET s     == SortedPct(t)
          q1    == QuantileTimes4(s, 1)
          q3    == QuantileTimes4(s, 3)
          iqr   == q3 - q1
          lower == IqrKDen * q1 - IqrKNum * iqr
          upper == IqrKDen * q3 + IqrKNum * iqr
          keep  == SortedSeqOfSet({i \in 1..Len(t) :
                      /\ 4 * IqrKDen * t[i].pct_change >= lower
                      /\ 4 * IqrKDen * t[i].pct_change <= upper})
      IN  [i \in 1..Len(keep) |-> t[keep[i]]]

\* one row fewer demanded
TooFewIqrLoose(t) == Len(t) < MinSamples - 1

\* > in place of <
TooFewIqrInverted(t) == Len(t) > MinSamples

\* the guard of the skip branch of NSE_EX_24MONTHS.py
TooFewIqr(t) == Len(t) < MinSamples

\* ------------------------------------------------------ weighted estimate
\* the division by weights.sum() forgotten
WeightsRaw(n, a) ==
    LET num == [i \in 1..n |-> Pow(a[1], n - i) * Pow(a[2], i - 1)]
    IN  [num |-> num, den |-> IF n = 0 THEN 0 ELSE Pow(a[2], n - 1)]

\* [alpha**(n - 1 - i) for i in range(n)] / sum, alpha = a[1]/a[2]; every
\* numerator is scaled by a[2]**(n - 1)
Weights(n, a) ==
    LET num == [i \in 1..n |-> Pow(a[1], n - i) * Pow(a[2], i - 1)]
    IN  [num |-> num, den |-> SumSeq(num)]

\* sum of the weights of the rows whose pct_change has the given sign
SignedWeight(t, w, sign) ==
    SumSeq([i \in 1..Len(t) |->
               IF sign * t[i].pct_change > 0 THEN w.num[i] ELSE 0])

PositivePct(t) == {t[i].pct_change : i \in {j \in 1..Len(t) : t[j].pct_change > 0}}

NegativePct(t) == {t[i].pct_change : i \in {j \in 1..Len(t) : t[j].pct_change < 0}}

\* the weights of all rows, those of the rows with pct_change 0 included
TotalWeightOfAll(t, w) == w.den

\* total_weight = weighted_positive + weighted_negative
TotalWeight(t, w) == SignedWeight(t, w, 1) + SignedWeight(t, w, -1)

\* part / total_weight if total_weight else 0
Probability(part, total) == IF total # 0 THEN Rat(part, total) ELSE <<0, 1>>

\* >= in place of >
DirectionTieUp(pinc, pdec) == IF RatLess(pinc, pdec) THEN "Decrease" ELSE "Increase"

\* "Increase" if prob_increase > prob_decrease else "Decrease"
Direction(pinc, pdec) == IF RatLess(pdec, pinc) THEN "Increase" ELSE "Decrease"

\* the largest pct_change of all rows
MaxOfAll(t) ==
    IF t = <<>> THEN <<>> ELSE <<SetMax({t[i].pct_change : i \in 1..Len(t)})>>

\* .loc[pct_change > 0, 'pct_change'].max(): NaN when no row is selected
MaxUpside(t) == IF PositivePct(t) = {} THEN <<>> ELSE <<SetMax(PositivePct(t))>>

\* .loc[pct_change < 0, 'pct_change'].min(): NaN when no row is selected
MaxDownside(t) == IF NegativePct(t) = {} THEN <<>> ELSE <<SetMin(NegativePct(t))>>

\* the record appended to results for one symbol (dates left out); the
\* weights of an empty frame divide by an empty sum without effect, and the
\* sums over it are 0
Estimate(symbol, t, w) ==
    LET total == TotalWeight(t, w)
        pinc  == Probability(SignedWeight(t, w, 1), total)
        pdec  == Probability(SignedWeight(t, w, -1), total)
        mean  == IF w.den = 0 THEN <<0, 1>>
                 ELSE Rat(SumSeq([i \in 1..Len(t) |-> w.num[i] * t[i].pct_change]),
                          w.den * PctScale)
    IN  [Symbol        |-> symbol,
         prob_increase |-> pinc,
         prob_decrease |-> pdec,
         direction     |-> Direction(pinc, pdec),
         max_prob      |-> RatMax(pinc, pdec),
         mean_change   |-> mean,
         max_upside    |-> MaxUpside(t),
         max_downside  |-> MaxDownside(t)]

\* ---------------------------------------------------------------- state
VARIABLES
    variant,            \* which script runs: "NSE_EX" or "NSE_EX_24MONTHS"
    symbols,            \* PARAMETERS: the symbols to process
    alpha,              \* PARAMETERS: decay factor, <<numerator, denominator>>
    remove_extremes,    \* PARAMETERS of NSE_EX.py: rows cut at each end
    idx,                \* position of the for loop in symbols, from 1
    data,               \* the frame fetched for the current symbol
    monthly_prices,     \* monthly_prices (NSE_EX) / monthly (24MONTHS)
    truncated_changes,  \* truncated_changes (NSE_EX) / data_trimmed (24MONTHS)
    weights,            \* the normalised weights of the current symbol
    outcome,            \* how the loop body ended for the symbol before idx
    results,            \* the records appended so far
    printed,            \* what the loop reported, one message per symbol
    script,             \* option scripts: "otm_premiums", "PFC" or "dhan"
    call,               \* the function of the script that was called
    records,            \* the 'records' object of the option chain
    near,               \* what nearest_expiry returned
    expiries,           \* the expiries the symbol's computation goes through
    rows_out,           \* the rows it produced
    raised,             \* the exception the call ended with
    args,               \* the arguments of a helper called on its own
    returned,           \* what that helper returned
    pc,                 \* where a running nsefetch or main stands
    attempt,            \* nsefetch: the loop variable
    gets,               \* nsefetch: the answers to the GETs made so far
    sym_data,           \* main: the tuples read and not yet processed
    all_rows,           \* main: the rows collected
    effects,            \* main: what it did to the outside, in order
    exit_status,        \* main: the exit status, -1 while running
    csv                 \* main: the output CSV file

vars == <<variant, symbols, alpha, remove_extremes, idx, data, monthly_prices,
          truncated_changes, weights, outcome, results, printed,
          script, call, records, near, expiries, rows_out, raised,
          args, returned,
          pc, attempt, gets, sym_data, all_rows, effects, exit_status, csv>>

Variants == {"NSE_EX", "NSE_EX_24MONTHS"}

\* decay factors in (0, 1]: 0.8 of NSE_EX.py, and 1
Decays == {<<4, 5>>, <<1, 1>>}

\* 0.85 of NSE_EX_24MONTHS.py
Alpha24 == <<17, 20>>

\* decay factors outside (0, 1]
BadDecays == {<<0, 1>>, <<-1, 2>>}

SymbolLists == {<<"PFC">>}

\* Python values, by type
PyNone == [type |-> "NoneType", val |-> <<>>]

PyStr(v) == [type |-> "str", val |-> v]

PyList(v) == [type |-> "list", val |-> v]

PyDict(v) == [type |-> "dict", val |-> v]

NoException == [type |-> "None", msg |-> ""]

\* the variables of nsefetch and main
ProcVars == <<pc, attempt, gets, sym_data, all_rows, effects, exit_status, csv>>

ChainVars == <<script, call, records, near, expiries, rows_out, raised,
               args, returned, ProcVars>>

\* no option-chain function has been called
ChainIdle ==
    /\ call = "None"
    /\ records = [data |-> <<>>]
    /\ near = PyNone
    /\ expiries = <<>>
    /\ rows_out = <<>>
    /\ raised = NoException
    /\ args = <<>>
    /\ returned = PyNone
    /\ pc = "None"
    /\ attempt = 0
    /\ gets = <<>>
    /\ sym_data = <<>>
    /\ all_rows = <<>>
    /\ effects = <<>>
    /\ exit_status = -1
    /\ csv = PyNone

InitLoop ==
    /\ script = "None"
    /\ ChainIdle
    /\ idx = 1
    /\ data = <<>>
    /\ monthly_prices = <<>>
    /\ truncated_changes = <<>>
    /\ weights = [num |-> <<>>, den |-> 0]
    /\ outcome = "None"
    /\ results = <<>>
    /\ printed = <<>>

\* parameters inside the documented ranges
Init ==
    /\ variant \in Variants
    /\ symbols \in SymbolLists
    /\ alpha \in Decays
    /\ remove_extremes \in (IF variant = "NSE_EX" THEN 0..MaxK ELSE {0})
    /\ InitLoop

\* any parameters, the malformed ones included
InitAnyParams ==
    /\ variant \in Variants
    /\ symbols \in SymbolLists
    /\ alpha \in Decays \cup BadDecays
    /\ remove_extremes \in (IF variant = "NSE_EX" THEN (-1)..MaxK ELSE {0})
    /\ InitLoop

\* the parameters as the two scripts set them
InitShipped ==
    /\ variant \in Variants
    /\ symbols \in SymbolLists
    /\ alpha = (IF variant = "NSE_EX" THEN <<4, 5>> ELSE Alpha24)
    /\ remove_extremes = (IF variant = "NSE_EX" THEN 1 ELSE 0)
    /\ InitLoop

Params == <<variant, symbols, alpha, remove_extremes>>

InLoop == idx <= Len(symbols)

\* break in place of continue: the loop ends at a symbol without a record
NextSymbolOrBreak(how) ==
    /\ outcome' = how
    /\ printed' = Append(printed, [symbol |-> symbols[idx], what |-> how])
    /\ idx' = IF how = "Estimate" THEN idx + 1 ELSE Len(symbols) + 1
    /\ UNCHANGED <<Params, ChainVars>>

\* the body reports how it ended (each branch prints one message naming the
\* symbol) and the loop moves to the next symbol
NextSymbol(how) ==
    /\ outcome' = how
    /\ printed' = Append(printed, [symbol |-> symbols[idx], what |-> how])
    /\ idx' = idx + 1
    /\ UNCHANGED <<Params, ChainVars>>

\* equity_history raises; the except clause reports it
FetchRaises ==
    /\ InLoop
    /\ NextSymbol("Error")
    /\ UNCHANGED <<data, monthly_prices, truncated_changes, weights, results>>

\* data is None or data.empty
NoData ==
    /\ InLoop
    /\ data' = <<>>
    /\ NextSymbol("NoData")
    /\ UNCHANGED <<monthly_prices, truncated_changes, weights, results>>

\* NSE_EX.py: too few monthly changes for the trim
SkipFixed(P) ==
    /\ InLoop
    /\ variant = "NSE_EX"
    /\ \E d \in Histories(P) :
          /\ d # <<>>
          /\ LET mp == MonthlyPrices(d)
             IN  /\ TooFewFixed(mp, remove_extremes)
                 /\ data' = d
                 /\ monthly_prices' = mp
    /\ NextSymbol("NotEnoughData")
    /\ UNCHANGED <<truncated_changes, weights, results>>

\* NSE_EX.py: trim, weigh, append the record
EstimateFixed(P) ==
    /\ InLoop
    /\ variant = "NSE_EX"
    /\ \E d \in Histories(P) :
          /\ d # <<>>
          /\ LET mp == MonthlyPrices(d)
             IN  /\ ~TooFewFixed(mp, remove_extremes)
                 /\ \E p \in SortOrders(mp) :
                       LET sorted_changes == Reordered(mp, p)
                           t == TruncateExtremes(sorted_changes, remove_extremes)
                           w == Weights(Len(t), alpha)
                       IN  /\ data' = d
                           /\ monthly_prices' = mp
                           /\ truncated_changes' = t
                           /\ weights' = w
                           /\ results' = Append(results, Estimate(symbols[idx], t, w))
    /\ NextSymbol("Estimate")

\* NSE_EX_24MONTHS.py: too few rows left by the IQR filter
SkipIqr(P) ==
    /\ InLoop
    /\ variant = "NSE_EX_24MONTHS"
    /\ \E d \in Histories(P) :
          /\ d # <<>>
          /\ LET mp == MonthlyPrices(d)
                 t  == remove_outliers_iqr(mp)
             IN  /\ TooFewIqr(t)
                 /\ data' = d
                 /\ monthly_prices' = mp
                 /\ truncated_changes' = t
    /\ NextSymbol("NotEnoughData")
    /\ UNCHANGED <<weights, results>>

\* NSE_EX_24MONTHS.py: filter, weigh, append the record
EstimateIqr(P) ==
    /\ InLoop
    /\ variant = "NSE_EX_24MONTHS"
    /\ \E d \in Histories(P) :
          /\ d # <<>>
          /\ LET mp == MonthlyPrices(d)
                 t  == remove_outliers_iqr(mp)
                 w  == Weights(Len(t), alpha)
             IN  /\ ~TooFewIqr(t)
                 /\ data' = d
                 /\ monthly_prices' = mp
                 /\ truncated_changes' = t
                 /\ weights' = w
                 /\ results' = Append(results, Estimate(symbols[idx], t, w)
                                                  @@ [Samples |-> Len(t)])
    /\ NextSymbol("Estimate")

Next ==
    \/ FetchRaises
    \/ NoData
    \/ SkipFixed(MonthEnd)
    \/ EstimateFixed(MonthEnd)
    \/ SkipIqr(MonthEnd)
    \/ EstimateIqr(MonthEnd)

\* the same loop over histories with several trading days in a month
NextDaily ==
    \/ FetchRaises
    \/ NoData
    \/ SkipFixed(Daily)
    \/ EstimateFixed(Daily)
    \/ SkipIqr(Daily)
    \/ EstimateIqr(Daily)

Spec == Init /\ [][Next]_vars

SpecDaily == InitShipped /\ [][NextDaily]_vars

SpecAnyParams == InitAnyParams /\ [][Next]_vars

\* ------------------------------------------------------------- batches
\* the symbols of both scripts
ShippedSymbols == <<"PFC", "TATACONSUM", "ETERNAL", "RVNL">>

\* the list cut to its first n symbols
BatchSymbolLists ==
    {SubSeq(ShippedSymbols, 1, n) : n \in {k \in 0..MaxSymbols : k <= Len(ShippedSymbols)}}

\* flat histories (every close 1) of the first 0..MaxBatchMonths months:
\* which branch the body takes depends on how many months a history has
Flat == [months |-> MaxBatchMonths, extra |-> 0, closes |-> 1, gaps |-> FALSE]

\* the parameters as the two scripts set them, the symbol list cut short
InitBatch ==
    /\ variant \in Variants
    /\ symbols \in BatchSymbolLists
    /\ alpha = (IF variant = "NSE_EX" THEN <<4, 5>> ELSE Alpha24)
    /\ remove_extremes = (IF variant = "NSE_EX" THEN 1 ELSE 0)
    /\ InitLoop

NextBatch ==
    \/ FetchRaises
    \/ NoData
    \/ SkipFixed(Flat)
    \/ EstimateFixed(Flat)
    \/ SkipIqr(Flat)
    \/ EstimateIqr(Flat)

\* the for loop runs on: every call of equity_history returns or raises
SpecBatch == InitBatch /\ [][NextBatch]_vars /\ WF_vars(NextBatch)

\* ------------------------------------------- the loop body from a series
\* x percent as a pct_change value, for x a multiple of 1/2
HalfPercents(x) == (x * PctScale) \div 2

\* the pct_change values 2.0, -1.0, 3.0, -0.5, 1.5
SeriesPcts == {HalfPercents(4), HalfPercents(-2), HalfPercents(6),
               HalfPercents(-1), HalfPercents(3)}

\* monthly_prices as line 39 can leave it, whatever history it came from:
\* n consecutive months with pct_change values from SeriesPcts (the close
\* column, which the rest of the body does not read, is left out)
MonthlySeries(n) ==
    { [i \in 1..n |-> [YearMonth |-> i, pct_change |-> c[i]]] :
        c \in [1..n -> SeriesPcts] }

\* NSE_EX.py from line 41 on: too few monthly changes for the trim
SkipSeries ==
    /\ InLoop
    /\ variant = "NSE_EX"
    /\ \E n \in 0..MaxSeries : \E mp \in MonthlySeries(n) :
          /\ TooFewFixed(mp, remove_extremes)
          /\ monthly_prices' = mp
    /\ NextSymbol("NotEnoughData")
    /\ UNCHANGED <<data, truncated_changes, weights, results>>

\* NSE_EX.py from line 41 on: trim, weigh, append the record
EstimateSeries ==
    /\ InLoop
    /\ variant = "NSE_EX"
    /\ \E n \in 0..MaxSeries : \E mp \in MonthlySeries(n) :
          /\ ~TooFewFixed(mp, remove_extremes)
          /\ \E p \in SortOrders(mp) :
                LET sorted_changes == Reordered(mp, p)
                    t == TruncateExtremes(sorted_changes, remove_extremes)
                    w == Weights(Len(t), alpha)
                IN  /\ monthly_prices' = mp
                    /\ truncated_changes' = t
                    /\ weights' = w
                    /\ results' = Append(results, Estimate(symbols[idx], t, w))
    /\ NextSymbol("Estimate")
    /\ UNCHANGED data

\* NSE_EX.py with its decay 0.8 and a trim count in 0..MaxK
InitSeries ==
    /\ variant = "NSE_EX"
    /\ symbols \in SymbolLists
    /\ alpha = <<4, 5>>
    /\ remove_extremes \in 0..MaxK
    /\ InitLoop

NextSeries == SkipSeries \/ EstimateSeries

SpecSeries == InitSeries /\ [][NextSeries]_vars

\* ------------------------------------------------ option-chain scripts
\* src/src/otm_premiums.py, src/src/utils/PFC.py, src/src/nse/dhan.py
Scripts == {"otm_premiums", "PFC", "dhan"}

\* an expiry string "dd-Mon-yyyy" is <<day, month>> over a calendar of
\* MaxExpMonths months with the expiry days 1..MaxExpDay each, the last of
\* them the month's last Thursday
ExpiryStrings == (1..MaxExpDay) \X (1..MaxExpMonths)

\* datetime.strptime(s, DATE_FMT), as a day number
to_date(s) == (s[2] - 1) * MaxExpDay + s[1]

is_last_thursday(dt) == dt % MaxExpDay = 0

\* records.get(key, default)
Get(rec, key, default) == IF key \in DOMAIN rec THEN rec[key] ELSE default

\* how a call ends
Raise(type, msg) == [raised |-> [type |-> type, msg |-> msg], value |-> PyNone]

Return(v) == [raised |-> NoException, value |-> v]

\* nearest_expiry(records) of script s: dhan.py returns exps, the others
\* exps[0]
nearest_expiry(s, rec) ==
    LET exps == Get(rec, "expiryDates", <<>>)
    IN  IF exps = <<>> THEN Raise("RuntimeError", "No expiries available.")
        ELSE IF s = "dhan" THEN Return(PyList(exps))
        ELSE Return(PyStr(exps[1]))

\* sorted((to_date(e), e) for e in exps), the strings (of distinct dates)
SortedByDate(exps) ==
    LET ds == SortedSeqOfSet({to_date(exps[i]) : i \in 1..Len(exps)})
    IN  [i \in 1..Len(ds) |->
            exps[CHOOSE j \in 1..Len(exps) : to_date(exps[j]) = ds[i]]]

RECURSIVE FillPicks(_, _)
\* the loop over after: append what is not yet in picks until picks has two
FillPicks(picks, after) ==
    IF after = <<>> \/ Len(picks) >= 2 THEN picks
    ELSE IF \E i \in 1..Len(picks) : picks[i] = Head(after)
         THEN FillPicks(picks, Tail(after))
         ELSE FillPicks(Append(picks, Head(after)), Tail(after))

\* next_two_monthlies(records, start_exp) of script s.  strptime raises
\* TypeError on anything but a str; dhan.py unpacks each string of after
\* into a pair, which raises ValueError
next_two_monthlies(s, rec, start_exp) ==
    IF start_exp.type # "str"
    THEN Raise("TypeError", "strptime() argument 1 must be str")
    ELSE
      LET dates    == SortedByDate(Get(rec, "expiryDates", <<>>))
          start_dt == to_date(start_exp.val)
          IsLater(e)   == to_date(e) > start_dt
          IsMonthly(e) == to_date(e) > start_dt /\ is_last_thursday(to_date(e))
          monthlies == SelectSeq(dates, IsMonthly)
          after     == SelectSeq(dates, IsLater)
      IN  IF Len(monthlies) >= 2 THEN Return(PyList(SubSeq(monthlies, 1, 2)))
          ELSE IF s = "dhan" /\ after # <<>>
               THEN Raise("ValueError", "too many values to unpack")
          ELSE Return(PyList(PySlice(FillPicks(monthlies, after), 0, 2)))

\* str.upper() on the strings of the model
Upper(s) ==
    CASE s = "ce" -> "CE"
      [] s = "pe" -> "PE"
      [] s = "pfc" -> "PFC"
      [] s = "rvnl" -> "RVNL"
      [] OTHER -> s

\* CE takes the highest candidate, the farthest listed strike
pick_strike_farthest(strikes, target, side) ==
    IF Upper(side) = "CE"
    THEN LET cands == SelectSeq(strikes, LAMBDA s : s >= target)
         IN  IF cands # <<>> THEN SetMax({cands[i] : i \in 1..Len(cands)})
             ELSE strikes[Len(strikes)]
    ELSE LET cands == SelectSeq(strikes, LAMBDA s : s <= target)
         IN  IF cands # <<>> THEN SetMax({cands[i] : i \in 1..Len(cands)})
             ELSE strikes[1]

\* pick_strike(strikes, target, side): the same in the three scripts
pick_strike(strikes, target, side) ==
    IF Upper(side) = "CE"
    THEN LET cands == SelectSeq(strikes, LAMBDA s : s >= target)
         IN  IF cands # <<>> THEN SetMin({cands[i] : i \in 1..Len(cands)})
             ELSE strikes[Len(strikes)]
    ELSE LET cands == SelectSeq(strikes, LAMBDA s : s <= target)
         IN  IF cands # <<>> THEN SetMax({cands[i] : i \in 1..Len(cands)})
             ELSE strikes[1]

\* available_strikes(records, expiry): sorted({float(strikePrice)}) over the
\* rows of that expiry (PFC.py raises on an empty result, see
\* compute_for_symbol)
available_strikes(rec, expiry) ==
    LET rows == Get(rec, "data", <<>>)
    IN  SortedSeqOfSet({rows[i].strikePrice :
                          i \in {j \in 1..Len(rows) : rows[j].expiryDate = expiry}})

\* strikes is not empty
HasStrikes(rec, exp) ==
    /\ exp.type = "str"
    /\ available_strikes(rec, exp.val) # <<>>

\* row_for(records, expiry, strike): the first row of that expiry and strike
row_for(rec, expiry, strike) ==
    LET rows == Get(rec, "data", <<>>)
        hits == {i \in 1..Len(rows) :
                    rows[i].expiryDate = expiry /\ rows[i].strikePrice = strike}
    IN  IF hits = {} THEN PyNone ELSE PyDict(rows[SetMin(hits)])

\* extract_leg(row, leg_key), the LTP of it: row.get(leg_key, {}) or {},
\* then leg.get("lastPrice")
extract_leg(row, leg_key) ==
    LET leg == Get(row, leg_key, <<>>)
    IN  [LTP |-> Get(leg, "lastPrice", PyNone)]

\* a missing LTP counts as 1
OrOne(ltp) == IF ltp = PyNone \/ ltp.val = 0 THEN 1 ELSE ltp.val

\* (leg["LTP"] or 0)
OrZero(ltp) == IF ltp = PyNone \/ ltp.val = 0 THEN 0 ELSE ltp.val

RECURSIVE RowsFor(_, _, _, _)
\* the loop over expiries: nothing for an expiry without strikes or
\* without a row for either strike, else a CALL row and then a PUT row.
\* pct is in percent and the targets underlying * (1 +- pct) in hundredths,
\* compared with the strikes in hundredths; Side stands without its
\* "(OTM~pct)" suffix
RowsFor(rec, exps, lot_size, pct) ==
    IF exps = <<>> THEN <<>>
    ELSE
      LET exp  == Head(exps)
          rest == RowsFor(rec, Tail(exps), lot_size, pct)
      IN  IF ~HasStrikes(rec, exp) THEN rest
          ELSE
            LET strikes == available_strikes(rec, exp.val)
                cents == [i \in 1..Len(strikes) |-> 100 * strikes[i]]
                underlying == rec.underlyingValue[1]
                target_call == underlying * (100 + pct)
                target_put  == underlying * (100 - pct)
                ce_strike == pick_strike(cents, target_call, "CE") \div 100
                pe_strike == pick_strike(cents, target_put, "PE") \div 100
                ce_row == row_for(rec, exp.val, ce_strike)
                pe_row == row_for(rec, exp.val, pe_strike)
            IN  IF ce_row = PyNone \/ pe_row = PyNone THEN rest
                ELSE
                  LET ce == extract_leg(ce_row.val, "CE")
                      pe == extract_leg(pe_row.val, "PE")
                  IN  << [Expiry |-> exp, Side |-> "CALL", Strike |-> ce_strike,
                          LTP |-> ce.LTP, LotSize |-> lot_size,
                          Premium |-> OrZero(ce.LTP) * lot_size],
                         [Expiry |-> exp, Side |-> "PUT", Strike |-> pe_strike,
                          LTP |-> pe.LTP, LotSize |-> lot_size,
                          Premium |-> OrZero(pe.LTP) * lot_size] >> \o rest

\* get_lot_size(symbol, override): lot is the override or, without one, the
\* lot size NSE gives, 0 when there is neither; dhan.py then falls back to 1
get_lot_size(s, lot) ==
    IF lot > 0 THEN Return(lot)
    ELSE IF s = "dhan" THEN Return(1)
    ELSE Raise("RuntimeError", "Could not determine lot size")

\* compute_for_symbol (get_otm_premiums in PFC.py) on the records that
\* fetch_records got
compute_for_symbol(s, rec, lot, pct) ==
    LET none == [raised |-> NoException, near |-> PyNone,
                 expiries |-> <<>>, rows_out |-> <<>>]
        fail(type, msg) == [none EXCEPT !.raised = [type |-> type, msg |-> msg]]
        lot_size == get_lot_size(s, lot)
    IN  IF Get(rec, "data", <<>>) = <<>> \/ Get(rec, "expiryDates", <<>>) = <<>>
        THEN fail("RuntimeError", "No option chain found")
        ELSE IF Get(rec, "underlyingValue", <<>>) = <<>>
        THEN fail("RuntimeError", "Underlying missing")
        ELSE IF lot_size.raised # NoException
        THEN [none EXCEPT !.raised = lot_size.raised]
        ELSE
          LET n  == nearest_expiry(s, rec)
              n2 == next_two_monthlies(s, rec, n.value)
              es == <<n.value>> \o [i \in 1..Len(n2.value.val) |-> PyStr(n2.value.val[i])]
          IN  IF n.raised # NoException THEN [none EXCEPT !.raised = n.raised]
              ELSE IF n2.raised # NoException
              THEN [none EXCEPT !.raised = n2.raised, !.near = n.value]
              ELSE IF s = "PFC" /\ \E i \in 1..Len(es) : ~HasStrikes(rec, es[i])
              THEN [raised |-> [type |-> "RuntimeError", msg |-> "No strikes for expiry"],
                    near |-> n.value, expiries |-> es, rows_out |-> <<>>]
              ELSE [raised |-> NoException, near |-> n.value,
                    expiries |-> es,
                    rows_out |-> RowsFor(rec, es, lot_size.value, pct)]

\* the expiryDates lists of n distinct expiry strings, in any order
ExpiryLists(n) ==
    { e \in [1..n -> ExpiryStrings] : \A i, j \in 1..n : i # j => e[i] # e[j] }

\* a number
PyNum(v) == [type |-> "float", val |-> v]

\* the data rows of a chain, one strike each and no quotes: none, or a row
\* for every expiry but at most one
DataRows(exps) ==
    {<<>>} \cup
    { LET keep == SortedSeqOfSet({i \in 1..Len(exps) : i # u})
      IN  [i \in 1..Len(keep) |->
              [expiryDate |-> exps[keep[i]], strikePrice |-> 1]] :
          u \in 0..Len(exps) }

\* the records objects: expiryDates and underlyingValue present or missing
RecordsOf(exps, rows) ==
    { [data |-> rows] @@ e @@ u :
        e \in {<<>>, [expiryDates |-> exps]},
        u \in {<<>>, [underlyingValue |-> <<1>>]} }

\* the records objects with n expiries on offer
AllRecords(n) ==
    UNION { UNION { RecordsOf(exps, rows) : rows \in DataRows(exps) } :
            exps \in ExpiryLists(n) }

\* nearest_expiry(records) called on its own
CallNearestExpiry ==
    /\ call = "None"
    /\ script \in Scripts
    /\ \E n \in 0..MaxExpiries : \E rec \in AllRecords(n) :
          LET r == nearest_expiry(script, rec)
          IN  /\ records' = rec
              /\ near' = r.value
              /\ raised' = r.raised
    /\ call' = "nearest_expiry"
    /\ UNCHANGED <<script, expiries, rows_out, args, returned, ProcVars>>
    /\ UNCHANGED <<Params, idx, data, monthly_prices, truncated_changes,
                   weights, outcome, results, printed>>

\* compute_for_symbol for one symbol
CallComputeForSymbol ==
    /\ call = "None"
    /\ script \in Scripts
    /\ \E n \in 0..MaxExpiries : \E rec \in AllRecords(n), lot \in {0, 1} :
          LET r == compute_for_symbol(script, rec, lot, 10)
          IN  /\ records' = rec
              /\ near' = r.near
              /\ expiries' = r.expiries
              /\ rows_out' = r.rows_out
              /\ raised' = r.raised
              /\ args' = [lot |-> lot, pct |-> 10]
    /\ call' = "compute_for_symbol"
    /\ UNCHANGED <<script, returned, ProcVars>>
    /\ UNCHANGED <<Params, idx, data, monthly_prices, truncated_changes,
                   weights, outcome, results, printed>>

\* the variables of the estimator scripts
LoopVars == <<Params, idx, data, monthly_prices, truncated_changes, weights,
              outcome, results, printed>>

\* next_two_monthlies(records, start_exp) called on its own, start_exp any
\* expiry string
CallNextTwoMonthlies ==
    /\ call = "None"
    /\ script \in Scripts
    /\ \E n \in 0..MaxExpiries : \E exps \in ExpiryLists(n) :
       \E rec \in RecordsOf(exps, <<>>), start \in ExpiryStrings :
          LET r == next_two_monthlies(script, rec, PyStr(start))
          IN  /\ records' = rec
              /\ args' = [start_exp |-> start]
              /\ returned' = r.value
              /\ raised' = r.raised
    /\ call' = "next_two_monthlies"
    /\ UNCHANGED <<script, near, expiries, rows_out, LoopVars, ProcVars>>

\* what available_strikes returns when it has strikes: sorted(set(...)),
\* non-empty
StrikeLists == { SortedSeqOfSet(S) : S \in (SUBSET (1..MaxStrike)) \ {{}} }

\* the targets underlying * (1 +- pct): below, at, between and above the
\* listed strikes
Targets == 0..(MaxStrike + 1)

Sides == {"CE", "PE", "ce"}

\* pick_strike called on its own
CallPickStrike ==
    /\ call = "None"
    /\ script \in Scripts
    /\ \E strikes \in StrikeLists, target \in Targets, side \in Sides :
          /\ args' = [strikes |-> strikes, target |-> target, side |-> side]
          /\ returned' = pick_strike(strikes, target, side)
    /\ raised' = NoException
    /\ call' = "pick_strike"
    /\ UNCHANGED <<script, records, near, expiries, rows_out, LoopVars, ProcVars>>

InitChain ==
    /\ script \in Scripts
    /\ ChainIdle
    /\ variant = "None"
    /\ symbols = <<>>
    /\ alpha = <<1, 1>>
    /\ remove_extremes = 0
    /\ idx = 1
    /\ data = <<>>
    /\ monthly_prices = <<>>
    /\ truncated_changes = <<>>
    /\ weights = [num |-> <<>>, den |-> 0]
    /\ outcome = "None"
    /\ results = <<>>
    /\ printed = <<>>

NextChain ==
    \/ CallNearestExpiry
    \/ CallComputeForSymbol
    \/ CallNextTwoMonthlies
    \/ CallPickStrike

SpecChain == InitChain /\ [][NextChain]_vars

\* ------------------------------------------------------- quoted chains
\* a chain of two expiries, the first and the second expiry day of the
\* first month
QuotedExpiries == << <<1, 1>>, <<2, 1>> >>

\* the quotes of a row: both legs priced; a null and a zero lastPrice; no
\* CE leg at all
Legs ==
    { [CE |-> [lastPrice |-> PyNum(3)], PE |-> [lastPrice |-> PyNum(5)]],
      [CE |-> [lastPrice |-> PyNone],   PE |-> [lastPrice |-> PyNum(0)]],
      [PE |-> [lastPrice |-> PyNum(5)]] }

\* the rows of records['data']: an expiry of the chain, a strike, quotes
QuoteRows ==
    { [expiryDate |-> QuotedExpiries[e], strikePrice |-> k] @@ q :
        e \in 1..2, k \in 1..MaxStrike, q \in Legs }

\* the records with n rows of data, the underlying at 2
QuotedRecords(n) ==
    { [data |-> rows, expiryDates |-> QuotedExpiries, underlyingValue |-> <<2>>] :
        rows \in [1..n -> QuoteRows] }

\* compute_for_symbol for one symbol of a quoted chain, OTM by 50 percent
CallComputeForQuotes ==
    /\ call = "None"
    /\ script \in Scripts
    /\ \E n \in 0..MaxQuotes : \E rec \in QuotedRecords(n), lot \in {0, 2} :
          LET r == compute_for_symbol(script, rec, lot, 50)
          IN  /\ records' = rec
              /\ near' = r.near
              /\ expiries' = r.expiries
              /\ rows_out' = r.rows_out
              /\ raised' = r.raised
              /\ args' = [lot |-> lot, pct |-> 50]
    /\ call' = "compute_for_symbol"
    /\ UNCHANGED <<script, returned, ProcVars, LoopVars>>

NextQuotes == CallComputeForQuotes

SpecQuotes == InitChain /\ [][NextQuotes]_vars

\* ------------------------------------------------------- symbols files
\* a line of the file is the sequence of its tokens, what line.strip().split()
\* gives; <<>> is a blank line
SymbolTokens == {"pfc", "RVNL"}

LotTokens == {"2700", "x"}

PctTokens == {"10", "2.5", "abc"}

CommentLines == { <<"#">>, <<"#PFC", "2700", "10">> }

\* line.startswith("#"), on a line that is not blank
StartsWithHash(parts) == parts[1] \in {"#", "#PFC"}

\* int(token)
py_int(token) ==
    CASE token = "2700" -> Return(2700)
      [] token = "10" -> Return(10)
      [] OTHER -> Raise("ValueError", "invalid literal for int()")

\* float(token), as a fraction
py_float(token) ==
    CASE token = "2700" -> Return(<<2700, 1>>)
      [] token = "10" -> Return(<<10, 1>>)
      [] token = "2.5" -> Return(<<5, 2>>)
      [] OTHER -> Raise("ValueError", "could not convert string to float")

\* the percentage is taken as it stands, not divided by 100
ParsePartsUnscaled(parts) ==
    LET lot == py_int(parts[2])
        pct == py_float(parts[3])
    IN  << Upper(parts[1]),
           IF lot.raised = NoException THEN lot.value ELSE 0,
           IF pct.raised = NoException THEN pct.value ELSE <<1, 10>> >>

\* the tuple (sym, lot, pct) of a line of three tokens or more
ParseParts(parts) ==
    LET lot == py_int(parts[2])
        pct == py_float(parts[3])
    IN  << Upper(parts[1]),
           IF lot.raised = NoException THEN lot.value ELSE 0,
           IF pct.raised = NoException
           THEN Rat(pct.value[1], pct.value[2] * 100) ELSE <<1, 10>> >>

RECURSIVE ReadLines(_, _)
\* the loop over the lines of the file, out the tuples so far
ReadLines(lines, out) ==
    IF lines = <<>> THEN Return(PyList(out))
    ELSE LET parts == Head(lines)
         IN  IF parts = <<>> \/ StartsWithHash(parts)
             THEN ReadLines(Tail(lines), out)
             ELSE IF Len(parts) < 3
             THEN Raise("ValueError", "Invalid line")
             ELSE ReadLines(Tail(lines), Append(out, ParseParts(parts)))

\* read_symbols_with_params(path), file the lines of the file at path, or
\* None when there is no such file
read_symbols_with_params(file) ==
    IF file = PyNone THEN Raise("FileNotFoundError", "Symbols file not found")
    ELSE ReadLines(file.val, <<>>)

\* the lines a file may hold: blank, comment, one to four tokens
FileLines ==
    {<<>>} \cup CommentLines
        \cup {<<s>> : s \in SymbolTokens}
        \cup {<<s, l>> : s \in SymbolTokens, l \in LotTokens}
        \cup {<<s, l, c>> : s \in SymbolTokens, l \in LotTokens, c \in PctTokens}
        \cup {<<s, l, c, "x">> : s \in SymbolTokens, l \in LotTokens, c \in PctTokens}

\* the files of n lines
Files(n) == {PyList(lines) : lines \in [1..n -> FileLines]}

\* read_symbols_with_params called on its own
CallReadSymbols ==
    /\ call = "None"
    /\ script \in {"otm_premiums", "dhan"}
    /\ \E n \in 0..MaxLines : \E file \in Files(n) \cup {PyNone} :
          LET r == read_symbols_with_params(file)
          IN  /\ args' = [file |-> file]
              /\ returned' = r.value
              /\ raised' = r.raised
    /\ call' = "read_symbols_with_params"
    /\ UNCHANGED <<script, records, near, expiries, rows_out, LoopVars, ProcVars>>

NextInput == CallReadSymbols

SpecInput == InitChain /\ [][NextInput]_vars

\* ------------------------------------------------------- sort_by_premium
\* src/src/sort_by_premium.py
MIN_PREMIUM == 4000

\* the Side column as the batch scripts write it, and in lower case
CsvSides == {"CALL (OTM~10%)", "PUT  (OTM~10%)", "call (otm~10%)"}

\* Series.str.contains(word, case=False, na=False) on a Side
Contains(side, word) ==
    CASE word = "CALL" -> side \in {"CALL (OTM~10%)", "call (otm~10%)"}
      [] word = "PUT" -> side \in {"PUT  (OTM~10%)"}
      [] OTHER -> FALSE

\* the rows of the input CSV: one symbol and expiry, premiums below, at and
\* above MIN_PREMIUM
CsvRows ==
    { [Symbol |-> "PFC", Expiry |-> <<1, 1>>, Strike |-> k, Side |-> s,
       Premium |-> v] :
        k \in 1..2, s \in CsvSides, v \in {MIN_PREMIUM - 1, MIN_PREMIUM, 5000} }

\* the frames of n rows
Frames(n) == [1..n -> CsvRows]

\* subset=["Symbol", "Expiry", "Strike", "Side"]
SortKey == <<"Symbol", "Expiry", "Strike", "Side">>

\* subset=["Symbol", "Underlying", "Expiry", "Strike", "Side"] of dhan.py
BatchKey == <<"Symbol", "Underlying", "Expiry", "Strike", "Side">>

\* every row is kept
keep_all(df, subset) == df

\* df.drop_duplicates(subset=..., keep="first")
drop_duplicates(df, subset) ==
    LET Key(r) == [c \in 1..Len(subset) |-> r[subset[c]]]
        keep == {i \in 1..Len(df) : \A j \in 1..(i - 1) : Key(df[j]) # Key(df[i])}
        order == SortedSeqOfSet(keep)
    IN  [k \in 1..Len(order) |-> df[order[k]]]

\* sort_values(by=["Premium"], ascending=False): the orders of the rows that
\* are descending by Premium; the order of rows with equal Premium is
\* whatever the (unstable) sort leaves
PremiumOrders(df) ==
    LET RECURSIVE Orders(_)
        Orders(I) ==
            IF I = {} THEN {<<>>}
            ELSE UNION { { <<i>> \o r : r \in Orders(I \ {i}) } :
                         i \in {x \in I : \A y \in I :
                                   df[x].Premium >= df[y].Premium} }
    IN  Orders(1..Len(df))

\* the variables sort_by_premium leaves alone
SortFrame == <<script, records, near, expiries, rows_out, raised, LoopVars,
               pc, attempt, gets, sym_data, all_rows, effects, csv>>

\* no argument given: usage, exit 1
SortUsage ==
    /\ call = "None"
    /\ args' = [argv |-> <<"sort_by_premium.py">>]
    /\ exit_status' = 1
    /\ call' = "sort_by_premium"
    /\ UNCHANGED <<returned, SortFrame>>

\* no such file (exit 2), or a file read_csv cannot read (exit 3)
SortNoInput ==
    /\ call = "None"
    /\ \E found \in BOOLEAN :
          /\ args' = [argv |-> <<"sort_by_premium.py", "in.csv">>,
                      exists |-> found]
          /\ exit_status' = IF found THEN 3 ELSE 2
    /\ call' = "sort_by_premium"
    /\ UNCHANGED <<returned, SortFrame>>

\* the file is read: duplicates dropped, premiums filtered, the CALL and
\* the PUT rows sorted and written to the two sheets
SortWrites ==
    /\ call = "None"
    /\ \E n \in 0..MaxCsvRows : \E df \in Frames(n) :
          LET unique == drop_duplicates(df, SortKey)
              rich   == SelectSeq(unique, LAMBDA r : r.Premium >= MIN_PREMIUM)
              df_ce  == SelectSeq(rich, LAMBDA r : Contains(r.Side, "CALL"))
              df_pe  == SelectSeq(rich, LAMBDA r : Contains(r.Side, "PUT"))
          IN  /\ args' = [argv |-> <<"sort_by_premium.py", "in.csv">>,
                          exists |-> TRUE, df |-> df]
              /\ \E pc_ \in PremiumOrders(df_ce), pp \in PremiumOrders(df_pe) :
                    returned' = PyDict([CALL |-> Reordered(df_ce, pc_),
                                        PUT  |-> Reordered(df_pe, pp)])
    /\ exit_status' = 0
    /\ call' = "sort_by_premium"
    /\ UNCHANGED SortFrame

InitSort ==
    /\ script = "sort_by_premium"
    /\ ChainIdle
    /\ variant = "None"
    /\ symbols = <<>>
    /\ alpha = <<1, 1>>
    /\ remove_extremes = 0
    /\ idx = 1
    /\ data = <<>>
    /\ monthly_prices = <<>>
    /\ truncated_changes = <<>>
    /\ weights = [num |-> <<>>, den |-> 0]
    /\ outcome = "None"
    /\ results = <<>>
    /\ printed = <<>>

NextSort ==
    \/ SortUsage
    \/ SortNoInput
    \/ SortWrites

SpecSort == InitSort /\ [][NextSort]_vars

\* ------------------------------------------- main (dhan.py, otm_premiums.py)
\* the scripts whose main goes through a symbols file
BatchScripts == {"otm_premiums", "dhan"}

\* the lines of the symbols files main is run on
MainLines == { <<"pfc", "2700", "10">>, <<"RVNL", "x", "10">>, <<"PFC">> }

\* the symbols files of n lines
MainFiles(n) == {PyList(lines) : lines \in [1..n -> MainLines]}

\* what fetch_records gets for a symbol: no chain, or a chain of two
\* expiries with quotes for the first
MainChains ==
    { [data |-> <<>>],
      [data |-> << [expiryDate |-> QuotedExpiries[1], strikePrice |-> 2,
                    CE |-> [lastPrice |-> PyNum(3)],
                    PE |-> [lastPrice |-> PyNum(5)]] >>,
       expiryDates |-> QuotedExpiries, underlyingValue |-> <<2>>] }

\* pct of a tuple, in percent
Percent(pct) == (100 * pct[1]) \div pct[2]

\* the test never finds the list empty
NoRowsNever(rows) == FALSE

\* not all_rows
NoRows(rows) == rows = <<>>

\* the variables main leaves alone
MainFrame == <<script, records, near, expiries, rows_out, raised, returned,
               attempt, gets, LoopVars>>

\* main is run and read_symbols_with_params raises: report, sys.exit(1)
ReadFails ==
    /\ call = "None"
    /\ script \in BatchScripts
    /\ \E n \in 0..MaxLines : \E file \in MainFiles(n) \cup {PyNone},
                                 skip \in BOOLEAN :
          /\ read_symbols_with_params(file).raised # NoException
          /\ args' = [file |-> file, skip_sort |-> skip]
    /\ call' = "main"
    /\ exit_status' = 1
    /\ pc' = "done"
    /\ UNCHANGED <<sym_data, all_rows, effects, csv, MainFrame>>

\* main is run and the symbols file is read
ReadSucceeds ==
    /\ call = "None"
    /\ script \in BatchScripts
    /\ \E n \in 0..MaxLines : \E file \in MainFiles(n), skip \in BOOLEAN :
          LET r == read_symbols_with_params(file)
          IN  /\ r.raised = NoException
              /\ args' = [file |-> file, skip_sort |-> skip]
              /\ sym_data' = r.value.val
    /\ call' = "main"
    /\ pc' = "for"
    /\ UNCHANGED <<all_rows, effects, exit_status, csv, MainFrame>>

\* a turn of the loop over sym_data: compute_for_symbol for the symbol, its
\* rows added to all_rows, or its exception reported
FetchSymbol ==
    /\ call = "main" /\ pc = "for"
    /\ sym_data # <<>>
    /\ \E rec \in MainChains :
          LET sym == Head(sym_data)[1]
              r == compute_for_symbol(script, rec, Head(sym_data)[2],
                                      Percent(Head(sym_data)[3]))
              rows == [i \in 1..Len(r.rows_out) |->
                          [Symbol |-> sym, Underlying |-> rec.underlyingValue[1]]
                              @@ r.rows_out[i]]
          IN  /\ all_rows' = IF r.raised = NoException THEN all_rows \o rows
                             ELSE all_rows
              /\ effects' = Append(effects, [op |-> "fetch", sym |-> sym])
    /\ sym_data' = Tail(sym_data)
    /\ UNCHANGED <<call, args, pc, exit_status, csv, MainFrame>>

\* the loop is over and no row was collected: sys.exit(2)
ExitNoData ==
    /\ call = "main" /\ pc = "for"
    /\ sym_data = <<>>
    /\ NoRows(all_rows)
    /\ exit_status' = 2
    /\ pc' = "done"
    /\ UNCHANGED <<call, args, sym_data, all_rows, effects, csv, MainFrame>>

\* the loop is over with rows: the CSV is written (dhan.py drops the
\* duplicates first) and then, in dhan.py without --skip-sort, the sort
\* step is run, its failure caught and reported
SaveCsv ==
    /\ call = "main" /\ pc = "for"
    /\ sym_data = <<>>
    /\ ~NoRows(all_rows)
    /\ LET df == IF script = "dhan" THEN drop_duplicates(all_rows, BatchKey)
                 ELSE all_rows
           saved == Append(effects, [op |-> "to_csv", df |-> df])
       IN  /\ csv' = PyList(df)
           /\ IF script = "dhan" /\ ~args.skip_sort
              THEN \E ok \in BOOLEAN :
                      effects' = Append(saved, [op |-> "sort", ok |-> ok])
              ELSE effects' = saved
    /\ exit_status' = 0
    /\ pc' = "done"
    /\ UNCHANGED <<call, args, sym_data, all_rows, MainFrame>>

InitMain == InitChain /\ script \in BatchScripts

NextMain ==
    \/ ReadFails
    \/ ReadSucceeds
    \/ FetchSymbol
    \/ ExitNoData
    \/ SaveCsv

SpecMain == InitMain /\ [][NextMain]_vars

\* ------------------------------------------------------ nsefetch (dhan.py)
\* the bodies a server answers with
Bodies == {"{}", "{\"records\": {}}", "<html>"}

\* resp.json(): the parsed body, or JSONDecodeError
resp_json(body) ==
    CASE body = "{}" -> Return(PyDict(<<>>))
      [] body = "{\"records\": {}}" -> Return(PyDict([records |-> <<>>]))
      [] OTHER -> Raise("JSONDecodeError", "Expecting value")

\* sess.get raised (no connection, timeout): there is no response
NoResponse == [status |-> 0, body |-> ""]

\* what a GET ends with: a response with its status and body, or an exception
Answers ==
    {[status |-> 200, body |-> b] : b \in Bodies}
        \cup {[status |-> 503, body |-> "<html>"], NoResponse}

\* the try block returns: status 200 and a body that parses
Returns(a) == a.status = 200 /\ resp_json(a.body).raised = NoException

\* the loop takes one turn more than range(max_retries)
InRangeOneMore == attempt <= args.max_retries

\* for attempt in range(max_retries): a turn is left
InRange == attempt < args.max_retries

\* nsefetch(url, max_retries) is called
NsefetchCall ==
    /\ call = "None"
    /\ \E n \in 0..MaxRetries : args' = [max_retries |-> n]
    /\ call' = "nsefetch"
    /\ pc' = "for"
    /\ attempt' = 0
    /\ gets' = <<>>
    /\ UNCHANGED <<script, records, near, expiries, rows_out, raised, returned>>
    /\ UNCHANGED <<sym_data, all_rows, effects, exit_status, csv, LoopVars>>

\* a turn of the loop whose GET answers 200 with a body that parses:
\* return resp.json()
GetReturns ==
    /\ call = "nsefetch" /\ pc = "for"
    /\ InRange
    /\ \E a \in Answers :
          /\ Returns(a)
          /\ gets' = Append(gets, a)
          /\ returned' = resp_json(a.body).value
    /\ pc' = "done"
    /\ UNCHANGED <<script, call, records, near, expiries, rows_out, raised, args>>
    /\ UNCHANGED <<attempt, sym_data, all_rows, effects, exit_status, csv, LoopVars>>

\* a turn of the loop that falls through to time.sleep: the status is not
\* 200, or sess.get or resp.json() raised and the except clause passed
GetFails ==
    /\ call = "nsefetch" /\ pc = "for"
    /\ InRange
    /\ \E a \in Answers :
          /\ ~Returns(a)
          /\ gets' = Append(gets, a)
    /\ attempt' = attempt + 1
    /\ UNCHANGED <<script, call, records, near, expiries, rows_out, raised, args,
                   returned>>
    /\ UNCHANGED <<pc, sym_data, all_rows, effects, exit_status, csv, LoopVars>>

\* the loop is over: raise RuntimeError
RetriesExhausted ==
    /\ call = "nsefetch" /\ pc = "for"
    /\ ~InRange
    /\ raised' = [type |-> "RuntimeError", msg |-> "Failed to fetch data from NSE"]
    /\ pc' = "done"
    /\ UNCHANGED <<script, call, records, near, expiries, rows_out, args, returned>>
    /\ UNCHANGED <<attempt, gets, sym_data, all_rows, effects, exit_status, csv,
                   LoopVars>>

InitFetch == InitChain /\ script = "dhan"

NextFetch ==
    \/ NsefetchCall
    \/ GetReturns
    \/ GetFails
    \/ RetriesExhausted

\* every GET ends (timeout=10) and every sleep ends, so a step that can be
\* taken is taken
SpecFetch == InitFetch /\ [][NextFetch]_vars /\ WF_vars(NextFetch)

\* ------------------------------------------------------------ properties
\* the loop body ran to the trim for the symbol before idx, so that data and
\* monthly_prices are those of that symbol
Aggregated == outcome \in {"NotEnoughData", "Estimate"}

HasRecord(symbol) == \E i \in 1..Len(results) : results[i].Symbol = symbol

MonthsOf(d) == {d[i].CH_TIMESTAMP[1] : i \in 1..Len(d)}

\* the close of the observation of month m with the latest trade date
LatestClose(d, m) ==
    LET i == CHOOSE i \in 1..Len(d) :
                 /\ d[i].CH_TIMESTAMP[1] = m
                 /\ \A j \in 1..Len(d) :
                       d[j].CH_TIMESTAMP[1] = m =>
                           d[j].CH_TIMESTAMP[2] <= d[i].CH_TIMESTAMP[2]
    IN  d[i].CH_CLOSING_PRICE

Chronological(t) ==
    \A i, j \in 1..Len(t) : i < j => t[i].YearMonth < t[j].YearMonth

\* no two rows have the same pct_change, so only one order is sorted
DistinctPct(t) ==
    \A i, j \in 1..Len(t) : i # j => t[i].pct_change # t[j].pct_change

\* C1: a fixed-count trim with remove_extremes = 0 returns the non-empty
\* monthly series unchanged, same entries in the same order.
C1_TrimZeroKeepsSeries ==
    (variant = "NSE_EX" /\ outcome = "Estimate" /\ remove_extremes = 0)
        => truncated_changes = monthly_prices

\* C2: after a fixed-count trim the surviving entries are in ascending
\* year-month order (stated for series without equal pct_change values,
\* whose sorted order does not depend on the sort's treatment of ties).
C2_SurvivorsChronological ==
    (variant = "NSE_EX" /\ outcome = "Estimate" /\ DistinctPct(monthly_prices))
        => Chronological(truncated_changes)

\* C3: in both scripts the weight of a surviving month is decay to the power
\* of the number of surviving months newer than it, so the most recent month
\* has weight decay^0 and each older month decay times the next newer one
\* (stated for series without equal pct_change values).
C3_WeightsFollowChronology ==
    (outcome = "Estimate" /\ DistinctPct(monthly_prices)) =>
        LET t == truncated_changes
            n == Len(t)
            newer(i) == Cardinality({j \in 1..n : t[j].YearMonth > t[i].YearMonth})
        IN  \A i \in 1..n :
                weights.num[i] = Pow(alpha[1], newer(i)) * Pow(alpha[2], n - 1 - newer(i))

\* C4: no record is produced from an empty trimmed series.
C4_NoEstimateFromEmpty ==
    (Aggregated /\ Len(truncated_changes) = 0 /\ idx > 1)
        => (outcome # "Estimate" /\ ~HasRecord(symbols[idx - 1]))

\* C5: a fixed-count trim on a series of length <= 2k skips the instrument
\* as having too little data, and appends no record for it.
C5_ShortSeriesSkipped ==
    (variant = "NSE_EX" /\ Aggregated /\ Len(monthly_prices) <= 2 * remove_extremes)
        => (outcome = "NotEnoughData" /\ ~HasRecord(symbols[idx - 1]))

C5_Witness ==
    /\ variant = "NSE_EX" /\ outcome = "NotEnoughData"
    /\ remove_extremes = 1 /\ Len(monthly_prices) = 2
    /\ results = <<>>

\* C6: for length L > 2k and k >= 1 the fixed-count trim keeps L - 2k
\* entries whose pct_change values are the input values without the k
\* smallest and the k largest, each between the largest removed low value
\* and the smallest removed high value.
C6_TrimRemovesExtremes ==
    (variant = "NSE_EX" /\ outcome = "Estimate" /\ remove_extremes >= 1) =>
        LET k == remove_extremes
            L == Len(monthly_prices)
            s == SortedPct(monthly_prices)
        IN  /\ Len(truncated_changes) = L - 2 * k
            /\ SortedPct(truncated_changes) = SubSeq(s, k + 1, L - k)
            /\ \A i \in 1..Len(truncated_changes) :
                  /\ s[k] <= truncated_changes[i].pct_change
                  /\ truncated_changes[i].pct_change <= s[L - k + 1]

C6_Witness ==
    /\ variant = "NSE_EX" /\ outcome = "Estimate" /\ remove_extremes = 1
    /\ Len(monthly_prices) = 4 /\ Len(truncated_changes) = 2
    /\ SortedPct(monthly_prices)[1] < SortedPct(truncated_changes)[1]
    /\ SortedPct(truncated_changes)[2] < SortedPct(monthly_prices)[4]

\* C7: a non-positive decay factor or a negative trim count yields no
\* record.
C7_MalformedRejected ==
    (alpha[1] <= 0 \/ remove_extremes < 0) => results = <<>>

\* C8: the close of every month of the history is the close of that month's
\* observation with the latest trade date (the first month's close is seen
\* through the first pct_change).
C8_MonthlyCloseIsLatest ==
    Aggregated =>
        /\ \A i \in 1..Len(monthly_prices) :
              monthly_prices[i].close = LatestClose(data, monthly_prices[i].YearMonth)
        /\ Len(monthly_prices) >= 1 =>
              LET first == LatestClose(data, SetMin(MonthsOf(data)))
              IN  monthly_prices[1].pct_change * first
                      = (monthly_prices[1].close - first) * 100 * PctScale

C8_Witness ==
    /\ Aggregated
    /\ \E i \in 1..Len(monthly_prices) : \E a, b \in 1..Len(data) :
          /\ a < b
          /\ data[a].CH_TIMESTAMP[1] = monthly_prices[i].YearMonth
          /\ data[b].CH_TIMESTAMP[1] = monthly_prices[i].YearMonth
          /\ data[a].CH_CLOSING_PRICE # data[b].CH_CLOSING_PRICE
          /\ monthly_prices[i].close = data[b].CH_CLOSING_PRICE

\* C9: a history of m >= 2 distinct months aggregates to m - 1 entries,
\* strictly ascending by year-month, the first month dropped, each with
\* pct_change = (close[i] - close[i-1]) / close[i-1] * 100 against the
\* month just before it.
C9_MonthlySeriesShape ==
    (Aggregated /\ Cardinality(MonthsOf(data)) >= 2) =>
        LET ms == SortedSeqOfSet(MonthsOf(data))
            prev(i) == LatestClose(data, ms[i])
        IN  /\ Len(monthly_prices) = Len(ms) - 1
            /\ Chronological(monthly_prices)
            /\ \A i \in 1..Len(monthly_prices) :
                  /\ monthly_prices[i].YearMonth = ms[i + 1]
                  /\ monthly_prices[i].pct_change * prev(i)
                        = (monthly_prices[i].close - prev(i)) * 100 * PctScale

C9_Witness ==
    /\ Aggregated
    /\ Len(monthly_prices) = 3
    /\ monthly_prices[2].YearMonth > monthly_prices[1].YearMonth + 1
    /\ monthly_prices[1].pct_change > 0
    /\ monthly_prices[3].pct_change < 0

\* C10: no data, or data of fewer than 2 distinct months, skips the
\* instrument and appends no record for it.
C10_TooFewMonthsSkipped ==
    (idx > 1 /\ outcome # "Error" /\ Cardinality(MonthsOf(data)) < 2)
        => (outcome \in {"NoData", "NotEnoughData"} /\ ~HasRecord(symbols[idx - 1]))

C10_Witness ==
    /\ outcome = "NotEnoughData"
    /\ Cardinality(MonthsOf(data)) = 1
    /\ results = <<>>

\* the monthly rows of NSE_EX_24MONTHS.py went through the IQR filter for the
\* symbol before idx
IqrTrimmed == variant = "NSE_EX_24MONTHS" /\ Aggregated

\* row r is one of the rows of t
Retained(r, t) == \E j \in 1..Len(t) : t[j] = r

\* C11: the IQR trim retains an entry if and only if its pct_change lies in
\* [Q1 - k*IQR, Q3 + k*IQR], bounds included (k = 1.5, quartiles by linear
\* interpolation; both sides scaled by 4 * IqrKDen).
C11_IqrKeepsExactlyInside ==
    (IqrTrimmed /\ Len(monthly_prices) >= 1) =>
        LET s   == SortedPct(monthly_prices)
            q1  == QuantileTimes4(s, 1)
            q3  == QuantileTimes4(s, 3)
            inside(x) ==
                /\ IqrKDen * q1 - IqrKNum * (q3 - q1) <= 4 * IqrKDen * x
                /\ 4 * IqrKDen * x <= IqrKDen * q3 + IqrKNum * (q3 - q1)
        IN  \A i \in 1..Len(monthly_prices) :
                Retained(monthly_prices[i], truncated_changes)
                    <=> inside(monthly_prices[i].pct_change)

\* an outlier is discarded and the other three months are kept
C11_Witness ==
    /\ IqrTrimmed /\ outcome = "Estimate"
    /\ Len(monthly_prices) = 4 /\ Len(truncated_changes) = 3
    /\ \E i \in 1..4 : ~Retained(monthly_prices[i], truncated_changes)

\* C12: the entries the IQR trim retains are a subsequence of the monthly
\* series: each is an unaltered input entry, none occurs twice, and they are
\* in the input's (chronological) order.
C12_IqrKeepsOrder ==
    IqrTrimmed =>
        \E f \in [1..Len(truncated_changes) -> 1..Len(monthly_prices)] :
            /\ \A i, j \in 1..Len(truncated_changes) : i < j => f[i] < f[j]
            /\ \A i \in 1..Len(truncated_changes) :
                  truncated_changes[i] = monthly_prices[f[i]]

\* a month between two kept months is discarded, and the kept months are not
\* in pct_change order
C12_Witness ==
    /\ IqrTrimmed /\ outcome = "Estimate"
    /\ Len(monthly_prices) = 4 /\ Len(truncated_changes) = 3
    /\ truncated_changes[1] = monthly_prices[1]
    /\ truncated_changes[3] = monthly_prices[4]
    /\ truncated_changes[1].pct_change > truncated_changes[2].pct_change

\* C13: fewer than 3 entries left by the IQR trim skip the instrument and
\* append no record for it; 3 or more produce its record.
C13_IqrMinimumSamples ==
    (IqrTrimmed /\ idx > 1) =>
        IF Len(truncated_changes) < 3
        THEN outcome = "NotEnoughData" /\ ~HasRecord(symbols[idx - 1])
        ELSE outcome = "Estimate" /\ HasRecord(symbols[idx - 1])

\* two monthly changes, both kept by the filter, are too few
C13_Witness ==
    /\ IqrTrimmed /\ outcome = "NotEnoughData"
    /\ Len(monthly_prices) = 2 /\ Len(truncated_changes) = 2
    /\ results = <<>>

\* the record appended for the symbol before idx, whose trimmed series is
\* truncated_changes and whose weights are weights
Estimated == outcome = "Estimate" /\ Len(results) >= 1

LastRecord == results[Len(results)]

\* sum of the weight numerators of the rows of truncated_changes that
\* satisfy Sel
WeightOver(Sel(_)) ==
    SumSeq([i \in 1..Len(truncated_changes) |->
               IF Sel(truncated_changes[i].pct_change) THEN weights.num[i] ELSE 0])

IsPos(x) == x > 0

IsNeg(x) == x < 0

IsNonZero(x) == x # 0

\* C14: prob_increase and prob_decrease are the weight of the rising, and of
\* the falling, entries as shares of the weight of the entries with non-zero
\* pct_change, so they add up to 1 when such an entry exists; both are 0 when
\* every pct_change is 0.
C14_ProbabilitiesComplement ==
    Estimated =>
        LET pinc == LastRecord.prob_increase
            pdec == LastRecord.prob_decrease
        IN  IF \E i \in 1..Len(truncated_changes) : truncated_changes[i].pct_change # 0
            THEN /\ pinc[1] * pdec[2] + pdec[1] * pinc[2] = pinc[2] * pdec[2]
                 /\ pinc[1] * WeightOver(IsNonZero) = pinc[2] * WeightOver(IsPos)
                 /\ pdec[1] * WeightOver(IsNonZero) = pdec[2] * WeightOver(IsNeg)
            ELSE pinc[1] = 0 /\ pdec[1] = 0

\* a trimmed series with an unchanged, a rising and a falling month
C14_Witness ==
    /\ Estimated
    /\ \E i, j, k \in 1..Len(truncated_changes) :
          /\ truncated_changes[i].pct_change = 0
          /\ truncated_changes[j].pct_change > 0
          /\ truncated_changes[k].pct_change < 0
    /\ LastRecord.prob_increase[1] > 0
    /\ LastRecord.prob_decrease[1] > 0

\* C15: the direction of every record is Increase exactly when its
\* prob_increase is greater than its prob_decrease, and Decrease otherwise.
C15_DirectionRule ==
    \A i \in 1..Len(results) :
        LET pinc == results[i].prob_increase
            pdec == results[i].prob_decrease
        IN  /\ results[i].direction \in {"Increase", "Decrease"}
            /\ results[i].direction = "Increase"
                  <=> pinc[1] * pdec[2] > pdec[1] * pinc[2]

\* equal, non-zero probabilities resolved to Decrease
C15_Witness ==
    /\ Estimated
    /\ LastRecord.prob_increase = <<1, 2>>
    /\ LastRecord.prob_decrease = <<1, 2>>
    /\ LastRecord.direction = "Decrease"

\* C16: max_upside is the largest pct_change of the trimmed entries above 0,
\* undefined exactly when there is none; max_downside is the smallest
\* pct_change of those below 0, undefined exactly when there is none; the
\* record is appended either way.
C16_ExtremesOfSigns ==
    Estimated =>
        LET t   == truncated_changes
            up  == LastRecord.max_upside
            dn  == LastRecord.max_downside
            pos == {i \in 1..Len(t) : t[i].pct_change > 0}
            neg == {i \in 1..Len(t) : t[i].pct_change < 0}
        IN  /\ (up = <<>>) <=> (pos = {})
            /\ (dn = <<>>) <=> (neg = {})
            /\ pos # {} => /\ \E i \in pos : up = <<t[i].pct_change>>
                           /\ \A i \in pos : t[i].pct_change <= up[1]
            /\ neg # {} => /\ \E i \in neg : dn = <<t[i].pct_change>>
                           /\ \A i \in neg : t[i].pct_change >= dn[1]

\* a record with an undefined max_upside beside a defined max_downside
C16_Witness ==
    /\ Estimated
    /\ Len(truncated_changes) >= 2
    /\ LastRecord.max_upside = <<>>
    /\ LastRecord.max_downside # <<>>
    /\ LastRecord.Symbol = symbols[idx - 1]

\* C17: for a trimmed series of n >= 1 entries and a decay in (0, 1] there
\* are n normalised weights, each positive, that sum to 1.
C17_WeightsNormalised ==
    (Estimated /\ Len(truncated_changes) >= 1) =>
        /\ Len(weights.num) = Len(truncated_changes)
        /\ weights.den > 0
        /\ \A i \in 1..Len(weights.num) : weights.num[i] > 0
        /\ SumSeq(weights.num) = weights.den

\* three weights under decay 0.8, no two of them equal
C17_Witness ==
    /\ Estimated
    /\ alpha = <<4, 5>>
    /\ Len(truncated_changes) = 3
    /\ weights.num[1] < weights.num[2] /\ weights.num[2] < weights.num[3]

\* |r - x / 10000| <= tol / 10000 for a rational r = <<numerator, denominator>>
Near(r, x, tol) == Abs(10000 * r[1] - x * r[2]) <= tol * r[2]

\* the monthly series 2.0, -1.0, 3.0, -0.5, 1.5, oldest first
ScenarioSeries ==
    /\ Len(monthly_prices) = 5
    /\ [i \in 1..5 |-> monthly_prices[i].pct_change]
          = <<HalfPercents(4), HalfPercents(-2), HalfPercents(6),
              HalfPercents(-1), HalfPercents(3)>>

\* C18: for the monthly pct_change series 2.0, -1.0, 3.0, -0.5, 1.5 (oldest
\* first), decay 0.8 and trim count 0, the record has a predicted change of
\* about 0.903, prob_increase about 0.6095, prob_decrease about 0.3905 (each
\* within 0.005) and direction Increase.
C18_ScenarioEstimate ==
    (variant = "NSE_EX" /\ alpha = <<4, 5>> /\ remove_extremes = 0
        /\ idx > 1 /\ ScenarioSeries) =>
        /\ Estimated
        /\ Near(LastRecord.mean_change, 9030, 50)
        /\ Near(LastRecord.prob_increase, 6095, 50)
        /\ Near(LastRecord.prob_decrease, 3905, 50)
        /\ LastRecord.direction = "Increase"

\* positions in symbols whose computation ran to the append
Completed == {i \in 1..Len(printed) : printed[i].what = "Estimate"}

\* every symbol before idx was processed, in list order, and results holds
\* one record for each completed one, in list order, and nothing else
RecordsMatchCompleted ==
    /\ Len(printed) = idx - 1
    /\ \A i \in 1..Len(printed) : printed[i].symbol = symbols[i]
    /\ Len(results) = Cardinality(Completed)
    /\ \A j \in 1..Len(results) :
          results[j].Symbol = symbols[SortedSeqOfSet(Completed)[j]]

AllProcessed == idx = Len(symbols) + 1

\* C19: whatever happens to a symbol (fetch raises, no data, too little
\* data), the loop goes on to every later symbol of the list, and results
\* always holds exactly one record for each symbol processed to completion,
\* in list order, and none for a failed or skipped one.
C19_PerSymbolIsolation ==
    [](RecordsMatchCompleted) /\ <>(AllProcessed /\ RecordsMatchCompleted)

\* a symbol with a record, a failed one, and a later one with a record
C19_Witness ==
    /\ AllProcessed
    /\ Len(symbols) = 3
    /\ printed[1].what = "Estimate"
    /\ printed[2].what = "Error"
    /\ printed[3].what = "Estimate"
    /\ [j \in 1..Len(results) |-> results[j].Symbol] = <<symbols[1], symbols[3]>>

\* the expiry selection of compute_for_symbol was reached: the chain has
\* data and expiries, an underlying value and a lot size
SelectionReached ==
    /\ call = "compute_for_symbol"
    /\ raised.msg \notin {"No option chain found", "Underlying missing",
                          "Could not determine lot size"}

\* C20: in each script nearest_expiry returns the first element of
\* records['expiryDates'], a single expiry string, and raises RuntimeError
\* when the list is empty or missing; and the symbol's computation goes
\* through the nearest expiry followed by at most two later expiries.
C20_NearestExpiryIsFirst ==
    LET exps == Get(records, "expiryDates", <<>>)
    IN  /\ call = "nearest_expiry" =>
              IF exps = <<>>
              THEN raised.type = "RuntimeError" /\ near = PyNone
              ELSE raised = NoException /\ near = PyStr(exps[1])
        /\ SelectionReached =>
              /\ near = PyStr(exps[1])
              /\ Len(expiries) \in 1..3
              /\ expiries[1] = near
              /\ \A i \in 2..Len(expiries) :
                    /\ expiries[i].type = "str"
                    /\ \E j \in 1..Len(exps) : exps[j] = expiries[i].val
                    /\ to_date(expiries[i].val) > to_date(near.val)

\* the expiry strings of the chain later than start, earliest first
LaterExpiries(start) ==
    LET exps == Get(records, "expiryDates", <<>>)
        ds   == SortedSeqOfSet({to_date(exps[i]) : i \in 1..Len(exps)}
                                   \cap {d \in 1..(MaxExpMonths * MaxExpDay) :
                                            d > to_date(start)})
    IN  [i \in 1..Len(ds) |->
            exps[CHOOSE j \in 1..Len(exps) : to_date(exps[j]) = ds[i]]]

IsMonthlyExpiry(e) == is_last_thursday(to_date(e))

IsOtherExpiry(e) == ~is_last_thursday(to_date(e))

\* C21: in each script next_two_monthlies(records, start) does not raise on
\* a well-formed list and returns at most two distinct expiries of the list,
\* each later than start: the two earliest last-Thursday expiries after
\* start when there are two, else the one there is (if any) followed by the
\* earliest other later expiries, until two are picked.
C21_NextTwoMonthlies ==
    call = "next_two_monthlies" =>
        LET later     == LaterExpiries(args.start_exp)
            monthlies == SelectSeq(later, IsMonthlyExpiry)
            others    == SelectSeq(later, IsOtherExpiry)
            r         == returned.val
        IN  /\ raised = NoException
            /\ returned.type = "list"
            /\ Len(r) <= 2
            /\ \A i, j \in 1..Len(r) : i # j => r[i] # r[j]
            /\ \A i \in 1..Len(r) : to_date(r[i]) > to_date(args.start_exp)
            /\ r = IF Len(monthlies) >= 2 THEN SubSeq(monthlies, 1, 2)
                   ELSE PySlice(monthlies \o others, 0, 2)

\* C22: the expiries a symbol's computation goes through, the nearest
\* followed by the result of next_two_monthlies, are in strictly ascending
\* date order.
C22_ExpiriesAscending ==
    (call = "compute_for_symbol" /\ raised = NoException) =>
        /\ \A i \in 1..Len(expiries) : expiries[i].type = "str"
        /\ \A i, j \in 1..Len(expiries) :
              i < j => to_date(expiries[i].val) < to_date(expiries[j].val)


\* the listed strikes on the OTM side of the target
OtmStrikes ==
    IF Upper(args.side) = "CE"
    THEN {args.strikes[i] : i \in {j \in 1..Len(args.strikes) : args.strikes[j] >= args.target}}
    ELSE {args.strikes[i] : i \in {j \in 1..Len(args.strikes) : args.strikes[j] <= args.target}}

FetchDone == call = "nsefetch" /\ pc = "done"

\* the bounds and outcomes of nsefetch, an attempt counting as failed when
\* Failed says so
FetchOutcome(Failed(_)) ==
    call = "nsefetch" =>
        /\ Len(gets) <= args.max_retries
        /\ \A i \in 1..(Len(gets) - 1) : Failed(gets[i])
        /\ (FetchDone /\ raised = NoException) =>
              /\ gets # <<>>
              /\ ~Failed(gets[Len(gets)])
              /\ resp_json(gets[Len(gets)].body).raised = NoException
              /\ returned = resp_json(gets[Len(gets)].body).value
        /\ FetchDone =>
              (raised # NoException <=>
                  /\ Len(gets) = args.max_retries
                  /\ \A i \in 1..Len(gets) : Failed(gets[i]))
        /\ raised # NoException => raised.type = "RuntimeError"

\* an attempt failed: not 200, or an exception from the GET
FailedAsStated(a) == a.status # 200

\* an attempt failed: not 200, an exception from the GET, or a body that
\* does not parse
FailedByCode(a) == a.status # 200 \/ resp_json(a.body).raised # NoException

\* C24 (as stated, without the termination): at most max_retries GETs; the
\* parsed JSON of the first attempt answering 200 is returned and no attempt
\* follows it; RuntimeError exactly when all max_retries attempts failed
\* (non-200 status or an exception)
C24_NsefetchAsStated == FetchOutcome(FailedAsStated)

\* C24 (amended): at most max_retries GETs; the parsed JSON of the first
\* attempt answering 200 with a body that parses is returned and no attempt
\* follows it; RuntimeError exactly when all max_retries attempts failed
\* (non-200 status, an exception of the GET, or a 200 body that does not
\* parse); nsefetch always ends
C24_Nsefetch == [](FetchOutcome(FailedByCode)) /\ <>(pc = "done")

\* a 200 answer that does not parse, retried, before the answer returned
C24_Witness ==
    /\ FetchDone
    /\ raised = NoException
    /\ Len(gets) >= 2
    /\ gets[1].status = 200
    /\ returned = PyDict([records |-> <<>>])


\* the rows emitted for expiry e
RowsOfExpiry(e) == {k \in 1..Len(rows_out) : rows_out[k].Expiry = e}

\* C25: for every expiry considered, compute_for_symbol (get_otm_premiums)
\* emits either a CALL row immediately followed by a PUT row for that expiry
\* or no row at all, and each emitted row's Premium is its LTP times the
\* lot size, a missing LTP counting as 0
C25_RowsInPairs ==
    call = "compute_for_symbol" =>
        /\ \A i \in 1..Len(expiries) :
              LET ks == RowsOfExpiry(expiries[i])
              IN  \/ ks = {}
                  \/ \E k \in 1..(Len(rows_out) - 1) :
                        /\ ks = {k, k + 1}
                        /\ rows_out[k].Side = "CALL"
                        /\ rows_out[k + 1].Side = "PUT"
        /\ \A k \in 1..Len(rows_out) :
              /\ \E i \in 1..Len(expiries) : expiries[i] = rows_out[k].Expiry
              /\ rows_out[k].LotSize = get_lot_size(script, args.lot).value
              /\ rows_out[k].Premium =
                    (IF rows_out[k].LTP = PyNone THEN 0 ELSE rows_out[k].LTP.val)
                        * rows_out[k].LotSize

\* rows for one expiry and none for the other, the CALL and the PUT at
\* different strikes, one of them without an LTP
C25_Witness ==
    /\ call = "compute_for_symbol"
    /\ Len(expiries) = 2
    /\ Len(rows_out) = 2
    /\ rows_out[1].Strike # rows_out[2].Strike
    /\ rows_out[1].LTP = PyNone
    /\ rows_out[1].Premium = 0
    /\ rows_out[2].Premium = 10


\* a line that is neither blank nor a comment
IsEntry(parts) == parts # <<>> /\ ~StartsWithHash(parts)

\* C26: read_symbols_with_params returns one (upper-cased symbol, lot, pct)
\* tuple per non-blank, non-comment line, in file order; a line with fewer
\* than three tokens raises ValueError and no list is returned; an
\* unparsable lot becomes 0 and an unparsable percentage 0.10, otherwise
\* pct is the third token divided by 100
C26_ReadSymbols ==
    (call = "read_symbols_with_params" /\ args.file # PyNone) =>
        LET entries == SelectSeq(args.file.val, IsEntry)
        IN  IF \E i \in 1..Len(entries) : Len(entries[i]) < 3
            THEN raised.type = "ValueError" /\ returned = PyNone
            ELSE /\ raised = NoException
                 /\ returned.type = "list"
                 /\ Len(returned.val) = Len(entries)
                 /\ \A i \in 1..Len(entries) :
                       LET lot == py_int(entries[i][2])
                           pct == py_float(entries[i][3])
                           tuple == returned.val[i]
                       IN  /\ tuple[1] = Upper(entries[i][1])
                           /\ tuple[2] = IF lot.raised # NoException THEN 0
                                         ELSE lot.value
                           /\ IF pct.raised # NoException THEN tuple[3] = <<1, 10>>
                              ELSE tuple[3][1] * pct.value[2] * 100
                                      = pct.value[1] * tuple[3][2]

\* a comment line skipped, then a lower-case symbol with an unparsable lot
\* and a fractional percentage
C26_Witness ==
    /\ call = "read_symbols_with_params"
    /\ args.file = PyList(<< <<"#PFC", "2700", "10">>, <<"pfc", "x", "2.5">> >>)
    /\ returned = PyList(<< <<"PFC", 0, <<1, 40>> >> >>)


\* the workbook was written
Written == call = "sort_by_premium" /\ returned # PyNone

\* the rows written, each with its sheet
WrittenRows ==
    {<<"CALL", i>> : i \in 1..Len(returned.val.CALL)}
        \cup {<<"PUT", i>> : i \in 1..Len(returned.val.PUT)}

\* C27: in sort_by_premium every row written to the CALL or the PUT sheet
\* has Premium >= MIN_PREMIUM, no two written rows share (Symbol, Expiry,
\* Strike, Side), each sheet is ordered by Premium non-increasing, and the
\* CALL sheet holds only rows whose Side contains CALL, the PUT sheet only
\* rows whose Side contains PUT
C27_SortedSheets ==
    Written =>
        LET sheet == returned.val
        IN  /\ \A w \in WrittenRows : sheet[w[1]][w[2]].Premium >= 4000
            /\ \A v, w \in WrittenRows :
                  v # w =>
                     LET a == sheet[v[1]][v[2]]
                         b == sheet[w[1]][w[2]]
                     IN  <<a.Symbol, a.Expiry, a.Strike, a.Side>>
                            # <<b.Symbol, b.Expiry, b.Strike, b.Side>>
            /\ \A s \in {"CALL", "PUT"} :
                  \A i, j \in 1..Len(sheet[s]) :
                     i < j => sheet[s][i].Premium >= sheet[s][j].Premium
            /\ \A w \in WrittenRows : Contains(sheet[w[1]][w[2]].Side, w[1])

\* three rows read, the first at MIN_PREMIUM exactly: a CALL sheet of two
\* rows with the higher premium first, and an empty PUT sheet
C27_Witness ==
    /\ Written
    /\ Len(args.df) = 3
    /\ Len(returned.val.CALL) = 2
    /\ returned.val.PUT = <<>>
    /\ returned.val.CALL[1].Premium = 5000
    /\ returned.val.CALL[2].Premium = 4000
    /\ args.df[1].Premium = 4000


\* main of dhan.py is running or has ended
InDhanMain == script = "dhan" /\ call = "main"

\* the places of an operation in what main did
EffectsOf(op) == {i \in 1..Len(effects) : effects[i].op = op}

\* C28: in dhan.py main the CSV is written only when a row was fetched, and
\* otherwise the run exits with status 2 without writing it; an unreadable
\* symbols file exits with status 1 before any symbol is fetched; the sort
\* step is run only after the CSV was written and only without --skip-sort;
\* and a failed sort step leaves the written CSV and the exit status 0
C28_MainOrder ==
    InDhanMain =>
        LET unreadable == read_symbols_with_params(args.file).raised # NoException
        IN  /\ (csv # PyNone \/ EffectsOf("to_csv") # {}) => all_rows # <<>>
            /\ (pc = "done" /\ ~unreadable /\ all_rows = <<>>) =>
                  exit_status = 2 /\ csv = PyNone
            /\ exit_status = 2 => csv = PyNone /\ EffectsOf("to_csv") = {}
            /\ unreadable =>
                  /\ pc = "done" /\ exit_status = 1
                  /\ effects = <<>> /\ csv = PyNone
            /\ \A i \in EffectsOf("sort") :
                  /\ ~args.skip_sort
                  /\ \E j \in EffectsOf("to_csv") : j < i
                  /\ ~effects[i].ok =>
                        /\ exit_status = 0
                        /\ \E j \in EffectsOf("to_csv") : csv = PyList(effects[j].df)

\* dhan.py went through two symbols, collected nothing and left with
\* status 2 and no CSV
C28_Witness ==
    /\ InDhanMain
    /\ pc = "done"
    /\ Cardinality(EffectsOf("fetch")) = 2
    /\ exit_status = 2
    /\ csv = PyNone


\* C29: in every reported estimate the direction probability is the
\* probability of the predicted direction (prob_increase for Increase,
\* prob_decrease for Decrease), and it is at least 1/2 whenever a trimmed
\* entry has a non-zero pct_change
C29_DirectionProbability ==
    /\ \A i \in 1..Len(results) :
          LET p == IF results[i].direction = "Increase"
                   THEN results[i].prob_increase
                   ELSE results[i].prob_decrease
          IN  results[i].max_prob[1] * p[2] = p[1] * results[i].max_prob[2]
    /\ (Estimated /\ \E j \in 1..Len(truncated_changes) :
                        truncated_changes[j].pct_change # 0) =>
          2 * LastRecord.max_prob[1] >= LastRecord.max_prob[2]

\* rising and falling entries, the rising ones weighing more
C29_Witness ==
    /\ Estimated
    /\ LastRecord.direction = "Increase"
    /\ LastRecord.prob_decrease[1] > 0
    /\ LastRecord.max_prob = LastRecord.prob_increase
    /\ RatLess(<<1, 2>>, LastRecord.max_prob)

====
